---- MODULE Spec2Model ----
(***************************************************************************)
(* Model of django_amazon_ses/backends/boto.py: the EmailBackend that      *)
(* sends Django EmailMessage objects through the Amazon SES raw-message    *)
(* endpoint.  One adapter instance is constructed and then handed batches  *)
(* of messages.  Every statement of send_messages and _send that is        *)
(* observable from outside (a signal, the remote call, the return or the   *)
(* raise) is one step, recorded in `log`.                                  *)
(***************************************************************************)
EXTENDS Integers, Sequences, FiniteSets

\* ---- bounds -------------------------------------------------------------
MaxLen == 3          \* longest batch handed to send_messages
MaxRecipients == 2   \* most recipients of one message

\* ---- values -------------------------------------------------------------
NoneVal == "None"                      \* Python None / an undefined setting
DefaultRegion == "us-east-1"           \* literal default of getattr()
ArgRegions == {"eu-west-1"}            \* regions passed to the constructor
SettingRegions == {"us-west-2"}        \* values of DJANGO_AMAZON_SES_REGION
MessageIds == {"abc123", "def456"}     \* identifiers the service hands out

\* An EmailMessage is represented by the number of its recipients().
Messages == 0..MaxRecipients

RECURSIVE SeqsUpTo(_)
SeqsUpTo(n) ==
    IF n = 0 THEN {<<>>}
    ELSE LET shorter == SeqsUpTo(n - 1)
         IN  shorter \cup {Append(s, m) : s \in {t \in shorter : Len(t) = n - 1},
                                          m \in Messages}

Batches == SeqsUpTo(MaxLen)

VARIABLES
    pc,                  \* position of the caller / of send_messages
    settings,            \* django.conf.settings.DJANGO_AMAZON_SES_REGION, or NoneVal when undefined
    arg_region,          \* region_name argument the adapter was constructed with
    fail_silently,       \* self.fail_silently
    conn,                \* region self.conn is bound to, NoneVal before construction
    email_messages,      \* the batch of the current send_messages call
    i,                   \* position of email_message in the batch (for loop)
    sent_message_count,  \* local of send_messages
    result,              \* MessageId of the last successful send_raw_email
    in_flight,           \* remote calls awaiting their response
    ret,                 \* outcome of send_messages
    log                  \* observable events of the current send_messages call

vars == <<pc, settings, arg_region, fail_silently, conn, email_messages, i,
          sent_message_count, result, in_flight, ret, log>>

Event(ev, k, id) == [ev |-> ev, k |-> k, id |-> id]

Pending == [kind |-> "pending", val |-> 0]
ReturnNone == [kind |-> "None", val |-> 0]
ReturnInt(n) == [kind |-> "int", val |-> n]
Raised == [kind |-> "ClientError", val |-> 0]

Init ==
    /\ pc = "new"
    /\ settings \in SettingRegions \cup {NoneVal}
    /\ arg_region = NoneVal
    /\ fail_silently = FALSE
    /\ conn = NoneVal
    /\ email_messages = <<>>
    /\ i = 1
    /\ sent_message_count = 0
    /\ result = NoneVal
    /\ in_flight = 0
    /\ ret = Pending
    /\ log = <<>>

\* ---- EmailBackend.__init__ ---------------------------------------------
ResolveRegion_SettingFirst(region_name, setting) ==
    IF setting # NoneVal THEN setting
    ELSE IF region_name # NoneVal THEN region_name
    ELSE DefaultRegion

\* lines 32-37: the argument, else getattr(settings, ..., 'us-east-1')
ResolveRegion(region_name, setting) ==
    IF region_name = NoneVal
    THEN IF setting # NoneVal THEN setting ELSE DefaultRegion
    ELSE region_name

Construct ==
    /\ pc = "new"
    /\ \E region_name \in ArgRegions \cup {NoneVal}, fs \in BOOLEAN :
          /\ arg_region' = region_name
          /\ fail_silently' = fs
          /\ conn' = ResolveRegion(region_name, settings)
    /\ pc' = "idle"
    /\ UNCHANGED <<settings, email_messages, i, sent_message_count, result,
                   in_flight, ret, log>>

\* ---- EmailBackend.send_messages ----------------------------------------
EmptyBatchReturn_Zero == ReturnInt(0)

\* lines 60-61: a bare return
EmptyBatchReturn == ReturnNone

\* lines 60-63: entry of send_messages, with the early return on an empty batch
CallSendMessages ==
    /\ pc \in {"idle", "returned", "raised"}
    /\ \E msgs \in Batches :
          /\ email_messages' = msgs
          /\ IF msgs = <<>>
             THEN pc' = "returned" /\ ret' = EmptyBatchReturn
             ELSE pc' = "loop" /\ ret' = Pending
    /\ i' = 1
    /\ sent_message_count' = 0
    /\ result' = NoneVal
    /\ log' = <<>>
    /\ UNCHANGED <<settings, arg_region, fail_silently, conn, in_flight>>

NextMessage_SkipsPreSend ==
    /\ pc = "loop"
    /\ i <= Len(email_messages)
    /\ pc' = "recipients"
    /\ UNCHANGED <<settings, arg_region, fail_silently, conn, email_messages,
                   i, sent_message_count, result, in_flight, ret, log>>

\* lines 65-66: the for loop takes the next message and calls _send
NextMessage ==
    /\ pc = "loop"
    /\ i <= Len(email_messages)
    /\ pc' = "pre_send"
    /\ UNCHANGED <<settings, arg_region, fail_silently, conn, email_messages,
                   i, sent_message_count, result, in_flight, ret, log>>

\* line 68: the loop is exhausted, return sent_message_count
ReturnCount ==
    /\ pc = "loop"
    /\ i > Len(email_messages)
    /\ ret' = ReturnInt(sent_message_count)
    /\ pc' = "returned"
    /\ UNCHANGED <<settings, arg_region, fail_silently, conn, email_messages,
                   i, sent_message_count, result, in_flight, log>>

\* ---- EmailBackend._send -------------------------------------------------
\* line 81: pre_send.send(...)
PreSend ==
    /\ pc = "pre_send"
    /\ log' = Append(log, Event("pre_send", i, NoneVal))
    /\ pc' = "recipients"
    /\ UNCHANGED <<settings, arg_region, fail_silently, conn, email_messages,
                   i, sent_message_count, result, in_flight, ret>>

HasNoRecipients_Never(m) == FALSE

\* line 83: not email_message.recipients()
HasNoRecipients(m) == m = 0

\* lines 83-84: return False; back in send_messages the count is not touched
SkipNoRecipients ==
    /\ pc = "recipients"
    /\ HasNoRecipients(email_messages[i])
    /\ log' = Append(log, Event("recipients", i, NoneVal))
    /\ i' = i + 1
    /\ pc' = "loop"
    /\ UNCHANGED <<settings, arg_region, fail_silently, conn, email_messages,
                   sent_message_count, result, in_flight, ret>>

\* lines 83-90: the message has recipients; addresses and body are prepared
PrepareMessage ==
    /\ pc = "recipients"
    /\ ~HasNoRecipients(email_messages[i])
    /\ log' = Append(log, Event("recipients", i, NoneVal))
    /\ pc' = "call"
    /\ UNCHANGED <<settings, arg_region, fail_silently, conn, email_messages,
                   i, sent_message_count, result, in_flight, ret>>

\* lines 93-99: self.conn.send_raw_email(...) is issued and blocks
SendRawEmail ==
    /\ pc = "call"
    /\ in_flight' = in_flight + 1
    /\ log' = Append(log, Event("send_raw_email", i, NoneVal))
    /\ pc' = "wait"
    /\ UNCHANGED <<settings, arg_region, fail_silently, conn, email_messages,
                   i, sent_message_count, result, ret>>

\* lines 93-100: the service accepts the message and returns its MessageId
RemoteSuccess ==
    /\ pc = "wait"
    /\ \E id \in MessageIds :
          /\ result' = id
          /\ log' = Append(log, Event("ok", i, id))
    /\ in_flight' = in_flight - 1
    /\ pc' = "post_send"
    /\ UNCHANGED <<settings, arg_region, fail_silently, conn, email_messages,
                   i, sent_message_count, ret>>

\* lines 93, 106: the call raises botocore's ClientError
RemoteClientError ==
    /\ pc = "wait"
    /\ log' = Append(log, Event("ClientError", i, NoneVal))
    /\ in_flight' = in_flight - 1
    /\ pc' = "except"
    /\ UNCHANGED <<settings, arg_region, fail_silently, conn, email_messages,
                   i, sent_message_count, result, ret>>

PostSendId_First(r) == "abc123"

\* line 100: message_id = result['MessageId']
PostSendId(r) == r

\* lines 101-105, 110: post_send.send(...), then return True
PostSend ==
    /\ pc = "post_send"
    /\ log' = Append(log, Event("post_send", i, PostSendId(result)))
    /\ pc' = "sent"
    /\ UNCHANGED <<settings, arg_region, fail_silently, conn, email_messages,
                   i, sent_message_count, result, in_flight, ret>>

CountIncrement_Two(n) == n + 2

\* line 67: sent_message_count += 1
CountIncrement(n) == n + 1

\* lines 66-67: _send returned True
CountSent ==
    /\ pc = "sent"
    /\ sent_message_count' = CountIncrement(sent_message_count)
    /\ i' = i + 1
    /\ pc' = "loop"
    /\ UNCHANGED <<settings, arg_region, fail_silently, conn, email_messages,
                   result, in_flight, ret, log>>

Reraises_Never(fs) == FALSE

Reraises_Always(fs) == TRUE

\* line 107: if not self.fail_silently
Reraises(fs) == ~fs

\* lines 107-108: raise; the error leaves _send and send_messages
PropagateError ==
    /\ pc = "except"
    /\ Reraises(fail_silently)
    /\ ret' = Raised
    /\ pc' = "raised"
    /\ UNCHANGED <<settings, arg_region, fail_silently, conn, email_messages,
                   i, sent_message_count, result, in_flight, log>>

AfterSwallow_Retry(k) == "call"

AfterSwallow_Counted(k) == "sent"

\* line 109 and 66: return False, the loop goes on
AfterSwallow(k) == "loop"

\* lines 107-109: the error is swallowed, _send returns False
SwallowError ==
    /\ pc = "except"
    /\ ~Reraises(fail_silently)
    /\ pc' = AfterSwallow(i)
    /\ i' = IF pc' = "loop" THEN i + 1 ELSE i
    /\ UNCHANGED <<settings, arg_region, fail_silently, conn, email_messages,
                   sent_message_count, result, in_flight, ret, log>>

Next ==
    \/ Construct
    \/ CallSendMessages
    \/ NextMessage
    \/ ReturnCount
    \/ PreSend
    \/ SkipNoRecipients
    \/ PrepareMessage
    \/ SendRawEmail
    \/ RemoteSuccess
    \/ RemoteClientError
    \/ PostSend
    \/ CountSent
    \/ PropagateError
    \/ SwallowError

Spec == Init /\ [][Next]_vars

\* ---- reading the log ----------------------------------------------------
Positions(ev, k) == {p \in DOMAIN log : log[p].ev = ev /\ log[p].k = k}
Times(ev, k) == Cardinality(Positions(ev, k))
Total(ev) == Cardinality({p \in DOMAIN log : log[p].ev = ev})
N == Len(email_messages)
Handled(k) == k < i      \* _send has returned normally for message k
Attempted(k) == Times("pre_send", k) >= 1
LastEvent == log[Len(log)]

\* C1: with fail_silently=False, once the remote call of message k has raised
\* a client error, nothing more happens in the batch: the error is the last
\* event (no pre-send and no remote call for k+1..N), the call is on its way
\* out with the error and send_messages never returns a count.
C1_ErrorPropagates ==
    \A k \in 1..N :
        (~fail_silently /\ Times("ClientError", k) >= 1) =>
            /\ pc \in {"except", "raised"}
            /\ ret.kind \in {"pending", "ClientError"}
            /\ pc = "raised" => ret.kind = "ClientError"
            /\ LastEvent.ev = "ClientError" /\ LastEvent.k = k
            /\ \A j \in (k + 1)..N :
                  Times("pre_send", j) = 0 /\ Times("send_raw_email", j) = 0

C1_Witness ==
    /\ ~fail_silently
    /\ pc = "raised"
    /\ \E k \in 1..N : Times("ClientError", k) = 1 /\ k < N /\ k > 1

\* C2: with fail_silently=True send_messages never raises, and when it has
\* returned from a non-empty batch every message was attempted and the
\* integer returned is the number of messages whose remote call succeeded.
C2_ErrorSwallowed ==
    fail_silently =>
        /\ pc # "raised"
        /\ ret.kind # "ClientError"
        /\ (pc = "returned" /\ N > 0) =>
              /\ \A k \in 1..N : Attempted(k)
              /\ ret.kind = "int"
              /\ ret.val = Cardinality({k \in 1..N : Times("ok", k) = 1})
              /\ \A k \in 1..N :
                    (email_messages[k] = 0 \/ Times("ClientError", k) >= 1)
                        => Times("ok", k) = 0

C2_Witness ==
    /\ fail_silently
    /\ pc = "returned"
    /\ N = 3
    /\ Times("ClientError", 1) = 1
    /\ Times("ok", 2) = 1
    /\ email_messages[3] = 0
    /\ ret = ReturnInt(1)

\* C3: a message without recipients that send_messages reaches gets exactly
\* one pre-send notification, no remote call and no post-send notification;
\* the step that skips it leaves the count alone and raises nothing, under
\* either fail_silently setting.
C3_State ==
    \A k \in 1..N :
        (email_messages[k] = 0 /\ Times("recipients", k) >= 1) =>
            /\ Times("pre_send", k) = 1
            /\ Times("send_raw_email", k) = 0
            /\ Times("ok", k) = 0
            /\ Times("post_send", k) = 0
            /\ Handled(k)

C3_Step ==
    (pc = "recipients" /\ email_messages[i] = 0) =>
        /\ sent_message_count' = sent_message_count
        /\ pc' = "loop"
        /\ i' = i + 1
        /\ ret' = ret

\* C3: a reached message without recipients is pre-announced once, never
\* sent or post-announced, never counted and never an error.
C3_NoRecipients == [](C3_State) /\ [][C3_Step]_vars

C3_Witness ==
    /\ pc = "returned"
    /\ N = 2
    /\ email_messages[1] = 2 /\ Times("post_send", 1) = 1
    /\ email_messages[2] = 0 /\ Times("recipients", 2) = 1
    /\ ret = ReturnInt(1)

\* C4: a message with recipients whose remote call succeeded has, once _send
\* is through with it, exactly one remote call and exactly one post-send
\* notification, which carries the identifier that call returned; and it adds
\* exactly 1 to the count: the count returned is the number of such messages.
C4_State ==
    /\ \A k \in 1..N :
          (Handled(k) /\ Times("ok", k) >= 1) =>
              /\ email_messages[k] >= 1
              /\ Times("send_raw_email", k) = 1
              /\ Times("ok", k) = 1
              /\ Times("post_send", k) = 1
              /\ \A p \in Positions("ok", k), q \in Positions("post_send", k) :
                    log[q].id = log[p].id
    /\ (pc = "returned" /\ ret.kind = "int") => ret.val = Total("ok")

C4_Step ==
    pc = "sent" => sent_message_count' = sent_message_count + 1

\* C4: a message with recipients whose remote call succeeds gets one call,
\* one post-send notification carrying the returned identifier, and counts once.
C4_Success == [](C4_State) /\ [][C4_Step]_vars

C4_Witness ==
    /\ pc = "returned"
    /\ N = 3
    /\ \E p \in Positions("post_send", 1) : log[p].id = "abc123"
    /\ \E p \in Positions("post_send", 3) : log[p].id = "def456"
    /\ ret = ReturnInt(2)

\* Every post-send notification directly follows a successful remote call for
\* the same message (so none fires for a failed or skipped message).
PostSendFollowsSuccess ==
    \A q \in DOMAIN log :
        log[q].ev = "post_send" =>
            /\ q > 1
            /\ log[q - 1].ev = "ok"
            /\ log[q - 1].k = log[q].k
            /\ email_messages[log[q].k] >= 1
            /\ Times("ClientError", log[q].k) = 0

\* C5 as stated: ... and at every point the number of post-send
\* notifications equals the number of successful remote calls and the
\* running sent count.
C5_AtEveryPoint ==
    /\ PostSendFollowsSuccess
    /\ Total("post_send") = Total("ok")
    /\ Total("post_send") = sent_message_count

\* C5 (amended): every post-send notification directly follows a successful
\* remote call for the same message; whenever no message is being processed
\* (between two iterations of the loop, and once send_messages has returned
\* or raised) the post-send notifications, the successful remote calls and
\* the sent count are equal in number, and while a message is being
\* processed each of them is at most one ahead of the next.
C5_PostSendOnlyAfterSuccess ==
    /\ PostSendFollowsSuccess
    /\ pc \in {"loop", "returned", "raised"} =>
          /\ Total("post_send") = Total("ok")
          /\ Total("post_send") = sent_message_count
    /\ Total("post_send") <= Total("ok")
    /\ Total("ok") <= Total("post_send") + 1
    /\ sent_message_count <= Total("post_send")
    /\ Total("post_send") <= sent_message_count + 1

C5_Witness ==
    /\ pc = "raised"
    /\ N = 3
    /\ email_messages[1] = 0
    /\ Times("post_send", 2) = 1
    /\ Times("ClientError", 3) = 1
    /\ sent_message_count = 1

\* C6: every message that is attempted has exactly one pre-send notification,
\* emitted before the recipient check and before any remote call for it,
\* whatever becomes of the message; the pre-send notifications name the
\* messages 1, 2, ... of the batch in order.
C6_PreSendFirst ==
    /\ \A p \in DOMAIN log :
          LET k == log[p].k
          IN  /\ Times("pre_send", k) = 1
              /\ \A q \in Positions("pre_send", k) : q <= p
              /\ log[p].ev = "pre_send" =>
                    k = 1 + Cardinality({q \in 1..(p - 1) : log[q].ev = "pre_send"})
    /\ \A k \in 1..N :
          (Handled(k) \/ (pc \notin {"loop", "pre_send"} /\ k = i)) <=> Attempted(k)

C6_Witness ==
    /\ pc = "returned"
    /\ N = 3
    /\ email_messages[1] = 0
    /\ Times("ClientError", 2) = 1
    /\ Times("post_send", 3) = 1
    /\ \A k \in 1..3 : Times("pre_send", k) = 1

\* C7 as stated: whenever message k of a batch fails, the messages k+1..N
\* are still attempted by the time send_messages is over.
C7_FailureNeverStopsBatch ==
    pc \in {"returned", "raised"} =>
        \A k \in 1..N :
            Times("ClientError", k) >= 1 => \A j \in (k + 1)..N : Attempted(j)

\* C7 (amended): with fail_silently=True, whenever message k of a batch
\* fails, the messages k+1..N are still attempted, each after the failure;
\* with fail_silently=False the first failure ends the batch.
C7_FailureStopsBatchOnlyIfNotSilent ==
    /\ (fail_silently /\ pc \in {"returned", "raised"}) =>
          \A k \in 1..N : \A p \in Positions("ClientError", k) :
              \A j \in (k + 1)..N : \E q \in Positions("pre_send", j) : q > p
    /\ (~fail_silently /\ pc \in {"returned", "raised"}) =>
          \A k \in 1..N : \A p \in Positions("ClientError", k) :
              pc = "raised" /\ p = Len(log)

C7_Witness ==
    /\ fail_silently
    /\ pc = "returned"
    /\ N = 3
    /\ Times("ClientError", 1) = 1
    /\ Times("ClientError", 2) = 1
    /\ Times("send_raw_email", 3) = 1

C9_NCallsForNMessages ==
    /\ in_flight <= 1
    /\ pc = "returned" => Total("send_raw_email") = N

\* C9 (amended): at most one remote call is made per message, never two in
\* flight at once; a call on a batch that returns normally has made exactly
\* one remote call for each message that has at least one recipient and none
\* for the others.
C9_OneCallPerAddressedMessage ==
    /\ in_flight \in {0, 1}
    /\ in_flight = 1 <=> pc = "wait"
    /\ \A k \in 1..N : Times("send_raw_email", k) <= 1
    /\ pc = "returned" =>
          /\ \A k \in 1..N :
                Times("send_raw_email", k) = IF email_messages[k] >= 1 THEN 1 ELSE 0
          /\ Total("send_raw_email") = Cardinality({k \in 1..N : email_messages[k] >= 1})

C9_Witness ==
    /\ pc = "returned"
    /\ N = 3
    /\ email_messages = <<1, 0, 2>>
    /\ Total("send_raw_email") = 2
    /\ Times("ClientError", 3) = 1

\* C10: the client is bound to the region_name argument when one was given,
\* else to the DJANGO_AMAZON_SES_REGION setting when it is defined, else to
\* "us-east-1".
C10_RegionPrecedence ==
    pc # "new" =>
        /\ arg_region # NoneVal => conn = arg_region
        /\ (arg_region = NoneVal /\ settings # NoneVal) => conn = settings
        /\ (arg_region = NoneVal /\ settings = NoneVal) => conn = "us-east-1"

C10_Witness ==
    /\ pc = "idle"
    /\ arg_region \in ArgRegions
    /\ settings \in SettingRegions
    /\ conn = arg_region
    /\ conn # settings

====
